---- MODULE Spec2Model ----
(***************************************************************************)
(* Model of AmitGDev/NtpClient: the NTP message codec (NtpMessage,         *)
(* Timestamp) and the single round trip client GetNtpTimestamp of          *)
(* src/NtpClient/NtpClient.cpp.                                            *)
(*                                                                         *)
(* A 32-bit unsigned value is held as its four base-256 digits, most       *)
(* significant first (a "word"): <<233, 227, 78, 13>> is 3923987981.       *)
(* Memory and datagrams are sequences of bytes; the host is little-endian  *)
(* (the code targets Winsock), so a word is stored least significant       *)
(* digit first.                                                            *)
(***************************************************************************)
EXTENDS Integers, Sequences, FiniteSets, TLC

\* ---------------------------------------------------------------------
\* Constants of NtpClient.cpp
\* ---------------------------------------------------------------------
kNtpPort == 123
kDefaultTimeout == 5000
kMaxHostnameLength == 253
kDefaultVersion == 3
kClientMode == 3
kServerMode == 4
kAlarmCondition == 3
kMaxValidStratum == 15
kLeapMask == 3
kLeapShift == 6
kLeapInvMask == 63
kVersionMask == 7
kVersionShift == 3
kVersionInvMask == 199
kModeMask == 7
kModeInvMask == 248

\* Values of enum class NtpError
kSuccess == 0
kWsaInitFailed == 1
kInvalidHostname == 2
kHostResolutionFailed == 3
kSocketCreationFailed == 4
kTimeoutFailed == 5
kSendFailed == 6
kReceiveFailed == 7
kInvalidResponse == 8

\* Winsock values the code compares with
SOCKET_ERROR == 0 - 1
INVALID_SOCKET == 0
AF_INET == 2

\* sizeof(NtpMessage): 4 single bytes, 2 words, 4 id bytes, 4 timestamps
MsgSize == 48

\* ---------------------------------------------------------------------
\* Bounds of the model
\* ---------------------------------------------------------------------
NumThreads == 2       \* threads that may call GetNtpTimestamp
MaxCalls == 2         \* calls a thread makes in a run
MaxHandle == 2        \* socket handles / address list ids the platform hands out
MaxListLen == 2       \* entries of a resolved address list
MaxHostLen == 255     \* longest hostname tried
MaxSets == 3          \* setters called in a row on one message
MaxErrorValue == 520  \* error values tried lie in -MaxErrorValue..MaxErrorValue

Threads == 1..NumThreads
Handles == 1..MaxHandle

\* ---------------------------------------------------------------------
\* Unsigned arithmetic on small values, as the C++ operators compute it
\* ---------------------------------------------------------------------
RECURSIVE BitAnd(_, _)
BitAnd(a, b) ==
    IF a = 0 \/ b = 0 THEN 0
    ELSE (IF a % 2 = 1 /\ b % 2 = 1 THEN 1 ELSE 0) + 2 * BitAnd(a \div 2, b \div 2)

RECURSIVE BitOr(_, _)
BitOr(a, b) ==
    IF a = 0 THEN b
    ELSE IF b = 0 THEN a
    ELSE (IF a % 2 = 1 \/ b % 2 = 1 THEN 1 ELSE 0) + 2 * BitOr(a \div 2, b \div 2)

RECURSIVE Pow2(_)
Pow2(n) == IF n = 0 THEN 1 ELSE 2 * Pow2(n - 1)

Shl(a, n) == a * Pow2(n)
Shr(a, n) == a \div Pow2(n)
U8(a) == a % 256

\* ---------------------------------------------------------------------
\* Timestamp
\* ---------------------------------------------------------------------
ZeroWord == <<0, 0, 0, 0>>

\* std::endian::native == std::endian::little on the Winsock targets
NativeLittle == TRUE

\* std::byteswap on a 32-bit value: the digits reversed
byteswap(w) == <<w[4], w[3], w[2], w[1]>>

ZeroTimestamp == [seconds_ |-> ZeroWord, fraction_ |-> ZeroWord]

\* Timestamp::SwapEndiansIfNLE that leaves the fields as they are
TsSwapEndiansIfNLE_NoSwap(ts) == ts

TsSwapEndiansIfNLE(ts) ==
    IF NativeLittle
    THEN [seconds_ |-> byteswap(ts.seconds_), fraction_ |-> byteswap(ts.fraction_)]
    ELSE ts

\* Zero that looks at the seconds only
Zero_SecondsOnly(ts) == ts.seconds_ = ZeroWord

Zero(ts) == ts.seconds_ = ZeroWord /\ ts.fraction_ = ZeroWord

\* ---------------------------------------------------------------------
\* NtpMessage
\* ---------------------------------------------------------------------
\* NtpMessage{}: every member zero-initialized
NtpMessage ==
    [li_vn_mode_ |-> 0, stratum_ |-> 0, poll_ |-> 0, precision_ |-> 0,
     sync_distance_ |-> ZeroWord, drift_rate_ |-> ZeroWord,
     ref_clock_id_ |-> <<0, 0, 0, 0>>,
     ref_ |-> ZeroTimestamp, orig_ |-> ZeroTimestamp,
     rx_ |-> ZeroTimestamp, tx_ |-> ZeroTimestamp]

\* SwapEndiansIfNLE that takes the first four bytes for one 32-bit word
SwapEndiansIfNLE_HeaderWord(m) ==
    [m EXCEPT !.li_vn_mode_ = m.precision_, !.stratum_ = m.poll_,
              !.poll_ = m.stratum_, !.precision_ = m.li_vn_mode_,
              !.ref_ = TsSwapEndiansIfNLE(m.ref_),
              !.orig_ = TsSwapEndiansIfNLE(m.orig_),
              !.rx_ = TsSwapEndiansIfNLE(m.rx_),
              !.tx_ = TsSwapEndiansIfNLE(m.tx_),
              !.sync_distance_ = byteswap(m.sync_distance_),
              !.drift_rate_ = byteswap(m.drift_rate_)]

\* SwapEndiansIfNLE that forgets drift_rate_
SwapEndiansIfNLE_NoDrift(m) ==
    [m EXCEPT !.ref_ = TsSwapEndiansIfNLE(m.ref_),
              !.orig_ = TsSwapEndiansIfNLE(m.orig_),
              !.rx_ = TsSwapEndiansIfNLE(m.rx_),
              !.tx_ = TsSwapEndiansIfNLE(m.tx_),
              !.sync_distance_ = byteswap(m.sync_distance_)]

\* SwapEndiansIfNLE that takes the reference id for a 32-bit integer too
SwapEndiansIfNLE_RefId(m) ==
    [m EXCEPT !.ref_ = TsSwapEndiansIfNLE(m.ref_),
              !.orig_ = TsSwapEndiansIfNLE(m.orig_),
              !.rx_ = TsSwapEndiansIfNLE(m.rx_),
              !.tx_ = TsSwapEndiansIfNLE(m.tx_),
              !.sync_distance_ = byteswap(m.sync_distance_),
              !.drift_rate_ = byteswap(m.drift_rate_),
              !.ref_clock_id_ = byteswap(m.ref_clock_id_)]

SwapEndiansIfNLE(m) ==
    LET t == [m EXCEPT !.ref_ = TsSwapEndiansIfNLE(m.ref_),
                       !.orig_ = TsSwapEndiansIfNLE(m.orig_),
                       !.rx_ = TsSwapEndiansIfNLE(m.rx_),
                       !.tx_ = TsSwapEndiansIfNLE(m.tx_)]
    IN IF NativeLittle
       THEN [t EXCEPT !.sync_distance_ = byteswap(m.sync_distance_),
                      !.drift_rate_ = byteswap(m.drift_rate_)]
       ELSE t

\* SetMode that does not clear the old mode bits
SetMode_NoClear(m, mode) ==
    [m EXCEPT !.li_vn_mode_ = U8(BitOr(m.li_vn_mode_, BitAnd(mode, kModeMask)))]

SetMode(m, mode) ==
    [m EXCEPT !.li_vn_mode_ =
        U8(BitOr(BitAnd(m.li_vn_mode_, kModeInvMask), BitAnd(mode, kModeMask)))]

Mode(m) == BitAnd(m.li_vn_mode_, kModeMask)

\* SetVersion that does not mask its argument
SetVersion_NoArgMask(m, version) ==
    [m EXCEPT !.li_vn_mode_ =
        U8(BitOr(BitAnd(m.li_vn_mode_, kVersionInvMask), Shl(version, kVersionShift)))]

SetVersion(m, version) ==
    [m EXCEPT !.li_vn_mode_ =
        U8(BitOr(BitAnd(m.li_vn_mode_, kVersionInvMask),
                 Shl(BitAnd(version, kVersionMask), kVersionShift)))]

Version(m) == BitAnd(U8(Shr(m.li_vn_mode_, kVersionShift)), kVersionMask)

SetLeapIndicator(m, leap_indicator) ==
    [m EXCEPT !.li_vn_mode_ =
        U8(BitOr(BitAnd(m.li_vn_mode_, kLeapInvMask),
                 Shl(BitAnd(leap_indicator, kLeapMask), kLeapShift)))]

LeapIndicator(m) == BitAnd(U8(Shr(m.li_vn_mode_, kLeapShift)), kLeapMask)

\* IsValid without the upper bound on the stratum
IsValid_NoStratumLimit(m) ==
    /\ Mode(m) = kServerMode
    /\ LeapIndicator(m) # kAlarmCondition
    /\ m.stratum_ > 0
    /\ ~Zero(m.tx_)

IsValid(m) ==
    /\ Mode(m) = kServerMode
    /\ LeapIndicator(m) # kAlarmCondition
    /\ m.stratum_ > 0
    /\ m.stratum_ <= kMaxValidStratum
    /\ ~Zero(m.tx_)

\* ---------------------------------------------------------------------
\* Object representation: what reinterpret_cast<char*>(this) exposes
\* ---------------------------------------------------------------------
\* The four bytes of a 32-bit member in memory
WordBytes(w) == IF NativeLittle THEN <<w[4], w[3], w[2], w[1]>> ELSE w

\* The 32-bit member that four bytes of memory hold
BytesWord(b) == IF NativeLittle THEN <<b[4], b[3], b[2], b[1]>> ELSE b

TsBytes(ts) == WordBytes(ts.seconds_) \o WordBytes(ts.fraction_)

BytesTs(b) ==
    [seconds_ |-> BytesWord(SubSeq(b, 1, 4)), fraction_ |-> BytesWord(SubSeq(b, 5, 8))]

\* The 48 bytes of an NtpMessage object, in member order
ObjectBytes(m) ==
    <<m.li_vn_mode_, m.stratum_, m.poll_, m.precision_>>
      \o WordBytes(m.sync_distance_) \o WordBytes(m.drift_rate_)
      \o m.ref_clock_id_
      \o TsBytes(m.ref_) \o TsBytes(m.orig_) \o TsBytes(m.rx_) \o TsBytes(m.tx_)

\* The NtpMessage object whose 48 bytes are b
BytesObject(b) ==
    [li_vn_mode_ |-> b[1], stratum_ |-> b[2], poll_ |-> b[3], precision_ |-> b[4],
     sync_distance_ |-> BytesWord(SubSeq(b, 5, 8)),
     drift_rate_ |-> BytesWord(SubSeq(b, 9, 12)),
     ref_clock_id_ |-> SubSeq(b, 13, 16),
     ref_ |-> BytesTs(SubSeq(b, 17, 24)), orig_ |-> BytesTs(SubSeq(b, 25, 32)),
     rx_ |-> BytesTs(SubSeq(b, 33, 40)), tx_ |-> BytesTs(SubSeq(b, 41, 48))]

\* recv() writing the first n bytes of a datagram over the object m
Overwrite(m, dgram, n) ==
    LET old == ObjectBytes(m)
    IN BytesObject([i \in 1..MsgSize |-> IF i <= n THEN dgram[i] ELSE old[i]])

\* ---------------------------------------------------------------------
\* Error codes and std::expected
\* ---------------------------------------------------------------------
MakeErrorCode(ntp_error) == [cat |-> "ntp", val |-> ntp_error]

\* std::error_code{WSAGetLastError(), std::system_category()}
SystemErrorCode(code) == [cat |-> "system", val |-> code]

\* The values of NtpError
NtpErrors == kSuccess..kInvalidResponse

\* ErrorCategory::name
CategoryName == "ntp"

\* ErrorCategory::message: static_cast<NtpError>(error_value) converts the
\* int to the underlying type std::uint8_t first
message(error_value) ==
    LET e == error_value % 256
    IN CASE e = kSuccess -> "Success"
         [] e = kWsaInitFailed -> "WSA initialization failed"
         [] e = kInvalidHostname -> "Invalid hostname"
         [] e = kHostResolutionFailed -> "Host resolution failed"
         [] e = kSocketCreationFailed -> "Socket creation failed"
         [] e = kTimeoutFailed -> "Failed to set socket timeout"
         [] e = kSendFailed -> "Send failed"
         [] e = kReceiveFailed -> "Receive failed"
         [] e = kInvalidResponse -> "Invalid response"
         [] OTHER -> "Unknown error"

Expected(v) == [has_value |-> TRUE, value |-> v]
Unexpected(e) == [has_value |-> FALSE, error |-> e]

NtpTimestamp(seconds, fraction) == [seconds |-> seconds, fraction |-> fraction]

\* No value: the call has not returned
Pending == [has_value |-> FALSE, error |-> [cat |-> "pending", val |-> 0]]

\* ---------------------------------------------------------------------
\* What the environment may answer
\* ---------------------------------------------------------------------
\* Hostname lengths tried: empty, shortest, around the limit, longest
HostLens == {0, 1, kMaxHostnameLength, kMaxHostnameLength + 1, MaxHostLen}

\* WSAStartup: success or WSASYSNOTREADY
StartupCodes == {0, 10091}
\* getaddrinfo: success or WSAHOST_NOT_FOUND
ResolverCodes == {0, 11001}
\* ai_family of a list entry: AF_INET or AF_INET6
Families == {AF_INET, 23}
AddrLists == UNION {[1..n -> Families] : n \in 0..MaxListLen}
OptResults == {0, SOCKET_ERROR}
\* WSAGetLastError after a failed sendto or recv: WSAETIMEDOUT, WSAECONNRESET
LastErrors == {10060, 10054}
SendCounts == {MsgSize - 1, MsgSize}
RecvCounts == {0, 1, MsgSize - 8, MsgSize - 1, MsgSize}
SendOutcomes ==
    {[count |-> SOCKET_ERROR, last |-> e] : e \in LastErrors}
      \cup {[count |-> n, last |-> 0] : n \in SendCounts}

\* Datagrams a server (or anyone else) may answer with
ExampleSeconds == <<233, 227, 78, 13>>        \* 3923987981
PackedBytes == {28, 36, 27, 220}              \* 0x1C 0x24 0x1B 0xDC
Strata == {0, 1, kMaxValidStratum, kMaxValidStratum + 1}
WireSeconds == {ZeroWord, ExampleSeconds}
WireFractions == {ZeroWord, <<0, 0, 0, 1>>}
Fills == {0, 7}

\* 48 bytes in wire layout: packed byte, stratum, 38 opaque bytes, then the
\* transmit timestamp's seconds and fraction, most significant byte first
Datagram(b0, st, fill, sec, frac) ==
    [i \in 1..MsgSize |->
        IF i = 1 THEN b0
        ELSE IF i = 2 THEN st
        ELSE IF i <= 40 THEN fill
        ELSE IF i <= 44 THEN sec[i - 40]
        ELSE frac[i - 44]]

Datagrams ==
    {Datagram(b0, st, fill, sec, frac) :
        b0 \in PackedBytes, st \in Strata, fill \in Fills,
        sec \in WireSeconds, frac \in WireFractions}

\* ---------------------------------------------------------------------
\* State
\* ---------------------------------------------------------------------
VARIABLES
    pc,           \* per thread: where its GetNtpTimestamp call stands
    ncalls,       \* per thread: calls started so far
    hostname,     \* per thread: hostname.size() of the current call
    wsaErr,       \* per thread: windows_sockets_api.error_code_ (-1: not constructed)
    result,       \* per thread: addrinfo* result (0: nullptr, else a list id)
    resolved,     \* per thread: ai_family of each entry of the resolved list
    guard,        \* per thread: pointer held by addr_guard (0: none)
    port,         \* per thread: server_addr->sin_port, host order (0: unset)
    sock,         \* per thread: udp_socket.socket_
    ntp_message,  \* per thread: the request
    response,     \* per thread: the response object
    wire,         \* per thread: datagrams handed to sendto
    datagram,     \* per thread: the datagram recv delivered
    ret,          \* per thread: what GetNtpTimestamp returned
    log,          \* per thread: external calls of the current call, in order
    wsaHeld,      \* per thread: successful WSAStartup not yet matched by WSACleanup
    openSockets,  \* sockets open in the process: [h, owner]
    liveLists,    \* address lists not yet freed: [id, owner]
    codec         \* a message, the member function applied to it and its outcome

vars == <<pc, ncalls, hostname, wsaErr, result, resolved, guard, port, sock,
          ntp_message, response, wire, datagram, ret, log, wsaHeld, openSockets, liveLists,
          codec>>

\* One external call: its name, the handle it is about, its payload
\* (a timeout, a last-error code), what it returned
Entry(call, arg, data, r) == [call |-> call, arg |-> arg, data |-> data, ret |-> r]

\* No thread has called yet
NoCalls ==
    /\ pc = [t \in Threads |-> "idle"]
    /\ ncalls = [t \in Threads |-> 0]
    /\ hostname = [t \in Threads |-> 0]
    /\ wsaErr = [t \in Threads |-> 0 - 1]
    /\ result = [t \in Threads |-> 0]
    /\ resolved = [t \in Threads |-> <<>>]
    /\ guard = [t \in Threads |-> 0]
    /\ port = [t \in Threads |-> 0]
    /\ sock = [t \in Threads |-> INVALID_SOCKET]
    /\ ntp_message = [t \in Threads |-> NtpMessage]
    /\ response = [t \in Threads |-> NtpMessage]
    /\ wire = [t \in Threads |-> <<>>]
    /\ datagram = [t \in Threads |-> <<>>]
    /\ ret = [t \in Threads |-> Pending]
    /\ log = [t \in Threads |-> <<>>]
    /\ wsaHeld = [t \in Threads |-> 0]
    /\ openSockets = {}
    /\ liveLists = {}

\* No setter called yet
NeverSet == [SetMode |-> 0 - 1, SetVersion |-> 0 - 1, SetLeapIndicator |-> 0 - 1]

\* codec: m the message, m0 the message to begin with, prev the message before
\* the last member function, op that function, arg its argument, out what it
\* (or the accessors after it) returned, n the setters called, last the last
\* argument of each setter
Untouched(m) ==
    [m |-> m, op |-> "none", out |-> FALSE, m0 |-> m, prev |-> m, arg |-> 0,
     n |-> 0, last |-> NeverSet]

Init ==
    /\ NoCalls
    /\ codec = Untouched(NtpMessage)

\* ---------------------------------------------------------------------
\* Scope exit: the destructors of the locals, in reverse order of
\* declaration (udp_socket, addr_guard, windows_sockets_api)
\* ---------------------------------------------------------------------
\* A Socket destructor that does not close
SocketDtor_NoClose(s) == <<>>

\* Socket::~Socket
SocketDtor(s) ==
    IF s # INVALID_SOCKET THEN <<Entry("closesocket", s, 0, 0)>> ELSE <<>>

\* An address guard that does not free the list
AddrGuardDtor_NoFree(g) == <<>>

\* ~unique_ptr<addrinfo, decltype(&freeaddrinfo)>
AddrGuardDtor(g) ==
    IF g # 0 THEN <<Entry("freeaddrinfo", g, 0, 0)>> ELSE <<>>

\* A WinsockScope destructor that calls WSACleanup after a failed WSAStartup too
WinsockScopeDtor_Always(e) ==
    IF e # 0 - 1 THEN <<Entry("WSACleanup", 0, 0, 0)>> ELSE <<>>

\* WinsockScope::~WinsockScope (e = -1: the object was never constructed)
WinsockScopeDtor(e) ==
    IF e = 0 THEN <<Entry("WSACleanup", 0, 0, 0)>> ELSE <<>>

\* The locals destroyed in the order of their declaration
Destructors_Forward(s, g, e) == WinsockScopeDtor(e) \o AddrGuardDtor(g) \o SocketDtor(s)

Destructors(s, g, e) == SocketDtor(s) \o AddrGuardDtor(g) \o WinsockScopeDtor(e)

Calls(entries, name) == {i \in 1..Len(entries) : entries[i].call = name}

\* return from GetNtpTimestamp with the locals s (udp_socket), g (addr_guard)
\* and e (windows_sockets_api) in scope, after the external calls `entries`
\* of this step; lists holds the address lists alive at this point
Return(t, value, entries, s, g, e, lists) ==
    LET d == Destructors(s, g, e)
    IN /\ pc' = [pc EXCEPT ![t] = "done"]
       /\ ret' = [ret EXCEPT ![t] = value]
       /\ log' = [log EXCEPT ![t] = @ \o entries \o d]
       /\ sock' = [sock EXCEPT ![t] = INVALID_SOCKET]
       /\ guard' = [guard EXCEPT ![t] = 0]
       /\ wsaErr' = [wsaErr EXCEPT ![t] = 0 - 1]
       /\ openSockets' =
            {x \in openSockets : \A i \in Calls(d, "closesocket") : d[i].arg # x.h}
       /\ liveLists' =
            {x \in lists : \A i \in Calls(d, "freeaddrinfo") : d[i].arg # x.id}
       /\ wsaHeld' = [wsaHeld EXCEPT ![t] = @ - Cardinality(Calls(d, "WSACleanup"))]
       /\ UNCHANGED codec

\* go on to the next external call
Continue(t, next, entries) ==
    /\ pc' = [pc EXCEPT ![t] = next]
    /\ log' = [log EXCEPT ![t] = @ \o entries]
    /\ UNCHANGED <<ret, codec>>

\* ---------------------------------------------------------------------
\* GetNtpTimestamp, one action per external call
\* ---------------------------------------------------------------------
\* The hostname guard with the limit off by one
GuardRejects_AtLimit(len) == len = 0 \/ len >= kMaxHostnameLength

\* The hostname guard
GuardRejects(len) == len = 0 \/ len > kMaxHostnameLength

\* A caller invokes GetNtpTimestamp(hostname)
Begin(t) ==
    /\ pc[t] = "idle"
    /\ ncalls[t] < MaxCalls
    /\ \E len \in HostLens :
        /\ hostname' = [hostname EXCEPT ![t] = len]
        /\ ncalls' = [ncalls EXCEPT ![t] = @ + 1]
        /\ IF GuardRejects(len)
           THEN Return(t, Unexpected(MakeErrorCode(kInvalidHostname)), <<>>,
                       INVALID_SOCKET, 0, 0 - 1, liveLists)
           ELSE /\ Continue(t, "WSAStartup", <<>>)
                /\ UNCHANGED <<sock, guard, wsaErr, openSockets, liveLists, wsaHeld>>
    /\ UNCHANGED <<result, resolved, port, ntp_message, response, wire, datagram>>

\* A request with protocol version 4
Request_Version4 == SetMode(SetVersion(NtpMessage, 4), kClientMode)

\* The request GetNtpTimestamp prepares
Request == SetMode(SetVersion(NtpMessage, kDefaultVersion), kClientMode)

\* const WinsockScope windows_sockets_api; and the request
WsaStartup(t) ==
    /\ pc[t] = "WSAStartup"
    /\ \E err \in StartupCodes :
        LET call == <<Entry("WSAStartup", 0, 0, err)>>
        IN IF err # 0
           THEN /\ Return(t, Unexpected(MakeErrorCode(kWsaInitFailed)), call,
                          INVALID_SOCKET, 0, err, liveLists)
                /\ UNCHANGED ntp_message
           ELSE /\ Continue(t, "getaddrinfo", call)
                /\ wsaErr' = [wsaErr EXCEPT ![t] = err]
                /\ wsaHeld' = [wsaHeld EXCEPT ![t] = @ + 1]
                /\ ntp_message' = [ntp_message EXCEPT ![t] = Request]
                /\ UNCHANGED <<sock, guard, openSockets, liveLists>>
    /\ UNCHANGED <<ncalls, hostname, result, resolved, port, response, wire, datagram>>

FreeListIds == Handles \ {x.id : x \in liveLists}

\* An address check that accepts a list with an IPv4 entry anywhere in it
AddressOk_AnyIPv4(res, list) ==
    res # 0 /\ \E i \in 1..Len(list) : list[i] = AF_INET

\* An address check that looks only for a null result list
AddressOk_NullOnly(res, list) == res # 0

\* The resolved address GetNtpTimestamp accepts
AddressOk(res, list) == ~(res = 0 \/ list[1] # AF_INET)

\* getaddrinfo, addr_guard, the address check and the port
GetAddrInfo(t) ==
    /\ pc[t] = "getaddrinfo"
    /\ \/ \E rc \in ResolverCodes \ {0} :
            /\ Return(t, Unexpected(MakeErrorCode(kHostResolutionFailed)),
                      <<Entry("getaddrinfo", 0, 0, rc)>>,
                      INVALID_SOCKET, 0, wsaErr[t], liveLists)
            /\ UNCHANGED <<result, resolved, port>>
       \/ \E list \in AddrLists, id \in FreeListIds :
            LET res == IF list = <<>> THEN 0 ELSE id
                call == <<Entry("getaddrinfo", res, 0, 0)>>
                lists == IF res = 0 THEN liveLists
                         ELSE liveLists \cup {[id |-> res, owner |-> t]}
            IN /\ result' = [result EXCEPT ![t] = res]
               /\ resolved' = [resolved EXCEPT ![t] = list]
               /\ IF ~AddressOk(res, list)
                  THEN /\ Return(t, Unexpected(MakeErrorCode(kHostResolutionFailed)),
                                 call, INVALID_SOCKET, res, wsaErr[t], lists)
                       /\ UNCHANGED port
                  ELSE /\ Continue(t, "socket", call)
                       /\ guard' = [guard EXCEPT ![t] = res]
                       /\ liveLists' = lists
                       /\ port' = [port EXCEPT ![t] = kNtpPort]
                       /\ UNCHANGED <<sock, wsaErr, openSockets, wsaHeld>>
    /\ UNCHANGED <<ncalls, hostname, ntp_message, response, wire, datagram>>

FreeHandles == Handles \ {x.h : x \in openSockets}

\* const Socket udp_socket{socket(PF_INET, SOCK_DGRAM, IPPROTO_UDP)};
CreateSocket(t) ==
    /\ pc[t] = "socket"
    /\ \E h \in FreeHandles \cup {INVALID_SOCKET} :
        LET call == <<Entry("socket", 0, 0, h)>>
        IN IF h = INVALID_SOCKET
           THEN Return(t, Unexpected(MakeErrorCode(kSocketCreationFailed)), call,
                       h, guard[t], wsaErr[t], liveLists)
           ELSE /\ Continue(t, "setsockopt", call)
                /\ sock' = [sock EXCEPT ![t] = h]
                /\ openSockets' = openSockets \cup {[h |-> h, owner |-> t]}
                /\ UNCHANGED <<guard, wsaErr, liveLists, wsaHeld>>
    /\ UNCHANGED <<ncalls, hostname, result, resolved, port, ntp_message, response,
                   wire, datagram>>

\* SetTimeout that looks at the result of the first setsockopt only
SetTimeoutResult_RecvOnly(recv_result, send_result) == recv_result # SOCKET_ERROR

\* Socket::SetTimeout: what it returns for the results of its two setsockopt
SetTimeoutResult(recv_result, send_result) ==
    recv_result # SOCKET_ERROR /\ send_result # SOCKET_ERROR

\* udp_socket.SetTimeout(kDefaultTimeout)
SetTimeout(t) ==
    /\ pc[t] = "setsockopt"
    /\ \E recv_result \in OptResults, send_result \in OptResults :
        LET call == <<Entry("setsockopt SO_RCVTIMEO", sock[t], kDefaultTimeout, recv_result),
                      Entry("setsockopt SO_SNDTIMEO", sock[t], kDefaultTimeout, send_result)>>
        IN IF ~SetTimeoutResult(recv_result, send_result)
           THEN Return(t, Unexpected(MakeErrorCode(kTimeoutFailed)), call,
                       sock[t], guard[t], wsaErr[t], liveLists)
           ELSE /\ Continue(t, "sendto", call)
                /\ UNCHANGED <<sock, guard, wsaErr, openSockets, liveLists, wsaHeld>>
    /\ UNCHANGED <<ncalls, hostname, result, resolved, port, ntp_message, response,
                   wire, datagram>>

\* NtpMessage::SendTo: the bytes handed to sendto
NetworkBytes(m) == ObjectBytes(SwapEndiansIfNLE(m))

\* SendTo that passes sendto's return value on without looking at it
SendToResult_Unchecked(sent_count, last_error) == Expected(sent_count)

\* NtpMessage::SendTo: what it returns when sendto returned sent_count
SendToResult(sent_count, last_error) ==
    IF sent_count = SOCKET_ERROR
    THEN Unexpected(SystemErrorCode(last_error))
    ELSE Expected(sent_count)

\* ntp_message.SendTo(udp_socket.Get(), *server_addr)
SendTo(t) ==
    /\ pc[t] = "sendto"
    /\ \E o \in SendOutcomes :
        LET call == <<Entry("sendto", sock[t], o.last, o.count)>>
            send_result == SendToResult(o.count, o.last)
        IN /\ wire' = [wire EXCEPT ![t] =
                 Append(@, [h |-> sock[t], bytes |-> NetworkBytes(ntp_message[t]),
                            list |-> result[t], entry |-> 1,
                            family |-> resolved[t][1], port |-> port[t]])]
           /\ IF ~send_result.has_value
              THEN Return(t, Unexpected(MakeErrorCode(kSendFailed)), call,
                          sock[t], guard[t], wsaErr[t], liveLists)
              ELSE /\ Continue(t, "recv", call)
                   /\ UNCHANGED <<sock, guard, wsaErr, openSockets, liveLists, wsaHeld>>
    /\ UNCHANGED <<ncalls, hostname, result, resolved, port, ntp_message, response,
                   datagram>>

\* What recv may deliver: a datagram of one of the lengths tried
Inbound == {SubSeq(d, 1, n) : d \in Datagrams, n \in RecvCounts}

RecvOutcomes ==
    {[count |-> SOCKET_ERROR, last |-> e, dgram |-> <<>>] : e \in LastErrors}
      \cup {[count |-> Len(d), last |-> 0, dgram |-> d] : d \in Inbound}

\* NtpMessage::Receive on the object m: the object afterwards and what it returns
Receive(m, o) ==
    LET raw == IF o.count = SOCKET_ERROR THEN m ELSE Overwrite(m, o.dgram, o.count)
    IN IF o.count = SOCKET_ERROR
       THEN [msg |-> raw, result |-> Unexpected(SystemErrorCode(o.last))]
       ELSE IF o.count < MsgSize
       THEN [msg |-> raw, result |-> Unexpected(MakeErrorCode(kInvalidResponse))]
       ELSE [msg |-> SwapEndiansIfNLE(raw), result |-> Expected(o.count)]

\* GetNtpTimestamp that hands the error of Receive on as it is
Outcome_PropagateRaw(r) ==
    IF ~r.result.has_value
    THEN Unexpected(r.result.error)
    ELSE IF ~IsValid(r.msg)
    THEN Unexpected(MakeErrorCode(kInvalidResponse))
    ELSE Expected(NtpTimestamp(r.msg.tx_.seconds_, r.msg.tx_.fraction_))

\* GetNtpTimestamp that reports an expired receive timeout as kTimeoutFailed
Outcome_TimeoutKind(r) ==
    IF ~r.result.has_value
    THEN IF r.result.error = SystemErrorCode(10060)
         THEN Unexpected(MakeErrorCode(kTimeoutFailed))
         ELSE Unexpected(MakeErrorCode(kReceiveFailed))
    ELSE IF ~IsValid(r.msg)
    THEN Unexpected(MakeErrorCode(kInvalidResponse))
    ELSE Expected(NtpTimestamp(r.msg.tx_.seconds_, r.msg.tx_.fraction_))

\* What GetNtpTimestamp returns once Receive has returned r
Outcome(r) ==
    IF ~r.result.has_value
    THEN Unexpected(MakeErrorCode(kReceiveFailed))
    ELSE IF ~IsValid(r.msg)
    THEN Unexpected(MakeErrorCode(kInvalidResponse))
    ELSE Expected(NtpTimestamp(r.msg.tx_.seconds_, r.msg.tx_.fraction_))

\* NtpMessage response{}; response.Receive(udp_socket.Get()); validation; result
RecvAndValidate(t) ==
    /\ pc[t] = "recv"
    /\ \E o \in RecvOutcomes :
        LET r == Receive(NtpMessage, o)
        IN /\ response' = [response EXCEPT ![t] = r.msg]
           /\ datagram' = [datagram EXCEPT ![t] = o.dgram]
           /\ Return(t, Outcome(r), <<Entry("recv", sock[t], o.last, o.count)>>,
                     sock[t], guard[t], wsaErr[t], liveLists)
    /\ UNCHANGED <<ncalls, hostname, result, resolved, port, ntp_message, wire>>

\* The caller takes the result; the locals of the call are gone
Finish(t) ==
    /\ pc[t] = "done"
    /\ pc' = [pc EXCEPT ![t] = "idle"]
    /\ hostname' = [hostname EXCEPT ![t] = 0]
    /\ result' = [result EXCEPT ![t] = 0]
    /\ resolved' = [resolved EXCEPT ![t] = <<>>]
    /\ port' = [port EXCEPT ![t] = 0]
    /\ ntp_message' = [ntp_message EXCEPT ![t] = NtpMessage]
    /\ response' = [response EXCEPT ![t] = NtpMessage]
    /\ wire' = [wire EXCEPT ![t] = <<>>]
    /\ datagram' = [datagram EXCEPT ![t] = <<>>]
    /\ ret' = [ret EXCEPT ![t] = Pending]
    /\ log' = [log EXCEPT ![t] = <<>>]
    /\ UNCHANGED <<ncalls, wsaErr, guard, sock, wsaHeld, openSockets, liveLists, codec>>

Step(t) ==
    \/ Begin(t)
    \/ WsaStartup(t)
    \/ GetAddrInfo(t)
    \/ CreateSocket(t)
    \/ SetTimeout(t)
    \/ SendTo(t)
    \/ RecvAndValidate(t)
    \/ Finish(t)

\* One caller: the calls follow one another
Next == Step(1)

Spec == Init /\ [][Next]_vars

\* ---------------------------------------------------------------------
\* The codec on its own: a message value, then one member function applied
\* ---------------------------------------------------------------------
callVars == <<pc, ncalls, hostname, wsaErr, result, resolved, guard, port, sock,
              ntp_message, response, wire, datagram, ret, log, wsaHeld, openSockets,
              liveLists>>

NonZeroWord == <<0, 0, 1, 0>>

\* Transmit timestamps: zero, only seconds set, only fraction set
CodecTimestamps ==
    {ZeroTimestamp,
     [seconds_ |-> ExampleSeconds, fraction_ |-> ZeroWord],
     [seconds_ |-> ZeroWord, fraction_ |-> NonZeroWord]}

\* Every packed byte and every stratum, the other members zero
CodecHeaders ==
    {[NtpMessage EXCEPT !.li_vn_mode_ = b, !.stratum_ = st, !.tx_ = tx] :
        b \in 0..255, st \in 0..255, tx \in CodecTimestamps}

NonZeroTimestamp == [seconds_ |-> ExampleSeconds, fraction_ |-> NonZeroWord]

\* A message with one of the members IsValid does not read set
WithOther(m, k) ==
    CASE k = 1 -> [m EXCEPT !.poll_ = 6]
      [] k = 2 -> [m EXCEPT !.precision_ = 233]
      [] k = 3 -> [m EXCEPT !.sync_distance_ = NonZeroWord]
      [] k = 4 -> [m EXCEPT !.drift_rate_ = NonZeroWord]
      [] k = 5 -> [m EXCEPT !.ref_clock_id_ = <<71, 80, 83, 0>>]
      [] k = 6 -> [m EXCEPT !.ref_ = NonZeroTimestamp]
      [] k = 7 -> [m EXCEPT !.orig_ = NonZeroTimestamp]
      [] k = 8 -> [m EXCEPT !.rx_ = NonZeroTimestamp]

CodecOthers ==
    {WithOther([NtpMessage EXCEPT !.li_vn_mode_ = b, !.stratum_ = st, !.tx_ = tx], k) :
        b \in PackedBytes, st \in Strata, tx \in CodecTimestamps, k \in 1..8}

\* A message with every member set, the words not palindromes
Full(b) ==
    [li_vn_mode_ |-> b, stratum_ |-> 2, poll_ |-> 6, precision_ |-> 233,
     sync_distance_ |-> <<0, 0, 1, 2>>, drift_rate_ |-> <<0, 0, 3, 4>>,
     ref_clock_id_ |-> <<71, 80, 83, 0>>,
     ref_ |-> [seconds_ |-> <<233, 227, 78, 10>>, fraction_ |-> <<1, 2, 3, 4>>],
     orig_ |-> [seconds_ |-> <<233, 227, 78, 11>>, fraction_ |-> <<5, 6, 7, 8>>],
     rx_ |-> [seconds_ |-> <<233, 227, 78, 12>>, fraction_ |-> <<9, 10, 11, 12>>],
     tx_ |-> [seconds_ |-> ExampleSeconds, fraction_ |-> <<13, 14, 15, 16>>]]

CodecFull == {Full(b) : b \in 0..255}

IsFull(m) == m = Full(m.li_vn_mode_)

\* The messages sequences of setters start from: only the packed byte set
IsSeqStart(m) ==
    /\ m.li_vn_mode_ \in PackedBytes \cup {0}
    /\ m = [NtpMessage EXCEPT !.li_vn_mode_ = m.li_vn_mode_]

InitCodec ==
    /\ NoCalls
    /\ codec \in {Untouched(m) : m \in CodecHeaders \cup CodecOthers \cup CodecFull}

\* m.IsValid()
ApplyIsValid ==
    /\ codec.op = "none"
    /\ codec' = [codec EXCEPT !.op = "IsValid", !.out = IsValid(codec.m)]
    /\ UNCHANGED callVars

\* m.SwapEndiansIfNLE() twice over; out is the message in between
ApplySwapEndiansIfNLE ==
    /\ codec.op = "none"
    /\ IsFull(codec.m) \/ codec.m \in CodecOthers \/ codec.m.stratum_ = 1
    /\ codec' = [codec EXCEPT !.op = "SwapEndiansIfNLE",
                              !.prev = codec.m,
                              !.out = SwapEndiansIfNLE(codec.m),
                              !.m = SwapEndiansIfNLE(SwapEndiansIfNLE(codec.m))]
    /\ UNCHANGED callVars

SetterOps == {"SetMode", "SetVersion", "SetLeapIndicator"}

\* Arguments of the setters in a sequence: in range, out of range (12, 255)
SeqArgs == {0, 3, 12, 255}

\* The arguments tried on the message of c: every 8-bit value for one setter
\* on a message with every member set, SeqArgs for up to MaxSets setters in a
\* row on a message with only the packed byte set
SetterArgs(c) ==
    IF c.op = "none" /\ IsFull(c.m) THEN 0..255
    ELSE IF c.op \in SetterOps \cup {"none"} /\ IsSeqStart(c.m0) /\ c.n < MaxSets
    THEN SeqArgs
    ELSE {}

\* The setter f, called with arg, left m2; out is what the accessors return
AfterSetter(c, f, arg, m2) ==
    [c EXCEPT !.op = f, !.arg = arg, !.prev = c.m, !.m = m2, !.n = c.n + 1,
              !.last = [c.last EXCEPT ![f] = arg],
              !.out = [Mode |-> Mode(m2), Version |-> Version(m2),
                       LeapIndicator |-> LeapIndicator(m2)]]

\* m.SetMode(arg)
ApplySetMode ==
    /\ \E arg \in SetterArgs(codec) :
        codec' = AfterSetter(codec, "SetMode", arg, SetMode(codec.m, arg))
    /\ UNCHANGED callVars

\* m.SetVersion(arg)
ApplySetVersion ==
    /\ \E arg \in SetterArgs(codec) :
        codec' = AfterSetter(codec, "SetVersion", arg, SetVersion(codec.m, arg))
    /\ UNCHANGED callVars

\* m.SetLeapIndicator(arg)
ApplySetLeapIndicator ==
    /\ \E arg \in SetterArgs(codec) :
        codec' = AfterSetter(codec, "SetLeapIndicator", arg,
                             SetLeapIndicator(codec.m, arg))
    /\ UNCHANGED callVars

\* The messages SendTo and Receive are tried on: every member set, one
\* member other than the header set, or stratum 1 with any packed byte
CodecSample(m) == IsFull(m) \/ m \in CodecOthers \/ m.stratum_ = 1

\* m.SendTo(socket, server_addr): out is the buffer handed to sendto
ApplySendTo ==
    /\ codec.op = "none"
    /\ CodecSample(codec.m)
    /\ codec' = [codec EXCEPT !.op = "SendTo", !.out = NetworkBytes(codec.m)]
    /\ UNCHANGED callVars

\* response.Receive(socket) on a fresh object, recv delivering the first n
\* bytes of the 48 that are the object representation of codec.m
ApplyReceive ==
    /\ codec.op = "none"
    /\ CodecSample(codec.m)
    /\ \E n \in {MsgSize - 1, MsgSize} :
        LET dgram == SubSeq(ObjectBytes(codec.m), 1, n)
            r == Receive(NtpMessage, [count |-> n, last |-> 0, dgram |-> dgram])
        IN codec' = [codec EXCEPT !.op = "Receive", !.prev = codec.m, !.arg = n,
                                  !.m = r.msg,
                                  !.out = [dgram |-> dgram, result |-> r.result]]
    /\ UNCHANGED callVars

\* m.IsValid(), then m.SwapEndiansIfNLE() and m.IsValid() again
ApplyIsValidSwapped ==
    /\ codec.op = "none"
    /\ CodecSample(codec.m) \/ codec.m.stratum_ \in Strata
    /\ codec' = [codec EXCEPT !.op = "IsValid, SwapEndiansIfNLE, IsValid",
                              !.prev = codec.m,
                              !.m = SwapEndiansIfNLE(codec.m),
                              !.out = [before |-> IsValid(codec.m),
                                       after |-> IsValid(SwapEndiansIfNLE(codec.m))]]
    /\ UNCHANGED callVars

NextCodec ==
    \/ ApplyIsValid
    \/ ApplyIsValidSwapped
    \/ ApplySendTo
    \/ ApplyReceive
    \/ ApplySwapEndiansIfNLE
    \/ ApplySetMode
    \/ ApplySetVersion
    \/ ApplySetLeapIndicator

SpecCodec == InitCodec /\ [][NextCodec]_vars

\* ---------------------------------------------------------------------
\* A call in progress goes on: each external primitive it calls returns
\* ---------------------------------------------------------------------
InCall(t) ==
    \/ WsaStartup(t)
    \/ GetAddrInfo(t)
    \/ CreateSocket(t)
    \/ SetTimeout(t)
    \/ SendTo(t)
    \/ RecvAndValidate(t)

\* For the specifications below the environment's answers are cut to a few
\* of each kind: hostnames the guard accepts and rejects, lists of at most
\* one entry, one platform error code, and for recv a valid reply, a reply
\* in client mode and a one-byte read
FewDatagrams ==
    {Datagram(b0, 1, 0, ExampleSeconds, ZeroWord) : b0 \in {28, 27}}

FewInbound == {<<>>} \cup {SubSeq(d, 1, n) : d \in FewDatagrams, n \in {1, MsgSize}}

FewAnswers ==
    \A t \in Threads :
        /\ hostname[t] \in {0, 1, kMaxHostnameLength + 1}
        /\ Len(resolved[t]) <= 1
        /\ datagram[t] \in FewInbound
        /\ \A i \in 1..Len(log[t]) : log[t][i].data \in {0, kDefaultTimeout, 10060}

LiveStep ==
    \/ Begin(1) /\ FewAnswers'
    \/ WsaStartup(1) /\ FewAnswers'
    \/ GetAddrInfo(1) /\ FewAnswers'
    \/ CreateSocket(1) /\ FewAnswers'
    \/ SetTimeout(1) /\ FewAnswers'
    \/ SendTo(1) /\ FewAnswers'
    \/ RecvAndValidate(1) /\ FewAnswers'
    \/ Finish(1) /\ FewAnswers'

NextLive == LiveStep

SpecLive == Init /\ [][NextLive]_vars /\ WF_vars(InCall(1) /\ FewAnswers')

\* ---------------------------------------------------------------------
\* Two threads call GetNtpTimestamp; their steps interleave at the external
\* calls, everything in between being on locals of the calling thread
\* ---------------------------------------------------------------------
Callers == {1, 2}

\* One call of each thread
OneCallEach == \A t \in Threads : ncalls[t] <= 1

\* Handles and list ids are tokens the code only compares with
\* INVALID_SOCKET and nullptr: the platform hands out the lowest one free
LowestFree ==
    \A t \in Threads :
        /\ sock'[t] \notin {sock[t], INVALID_SOCKET} =>
              \A h \in FreeHandles : sock'[t] <= h
        /\ result'[t] \notin {result[t], 0} =>
              \A id \in FreeListIds : result'[t] <= id

FewStep == FewAnswers' /\ OneCallEach' /\ LowestFree

ConcStep(t) ==
    \/ Begin(t) /\ FewStep
    \/ WsaStartup(t) /\ FewStep
    \/ GetAddrInfo(t) /\ FewStep
    \/ CreateSocket(t) /\ FewStep
    \/ SetTimeout(t) /\ FewStep
    \/ SendTo(t) /\ FewStep
    \/ RecvAndValidate(t) /\ FewStep
    \/ Finish(t) /\ FewStep

NextConc == \E t \in Callers : ConcStep(t)

SpecConc == Init /\ [][NextConc]_vars

\* ---------------------------------------------------------------------
\* The error category on its own: an int, then message or MakeErrorCode
\* ---------------------------------------------------------------------
ErrorValues == (0 - MaxErrorValue)..MaxErrorValue

InitErrors ==
    /\ NoCalls
    /\ codec \in {[Untouched(NtpMessage) EXCEPT !.arg = v] : v \in ErrorValues}

\* GetErrorCategory().message(arg)
ApplyMessage ==
    /\ codec.op = "none"
    /\ codec' = [codec EXCEPT !.op = "message", !.out = message(codec.arg)]
    /\ UNCHANGED callVars

\* MakeErrorCode(static_cast<NtpError>(arg)) for the values of the enumeration
ApplyMakeErrorCode ==
    /\ codec.op = "none"
    /\ codec.arg \in NtpErrors
    /\ codec' = [codec EXCEPT !.op = "MakeErrorCode", !.out = MakeErrorCode(codec.arg)]
    /\ UNCHANGED callVars

NextErrors ==
    \/ ApplyMessage
    \/ ApplyMakeErrorCode

SpecErrors == InitErrors /\ [][NextErrors]_vars

\* =====================================================================
\* Properties
\* =====================================================================
Done(t) == pc[t] = "done"

Entries(t, name) == {i \in 1..Len(log[t]) : log[t][i].call = name}
Called(t, name) == Entries(t, name) # {}
Rets(t, name) == {log[t][i].ret : i \in Entries(t, name)}

ReturnedError(t, kind) ==
    ~ret[t].has_value /\ ret[t].error = [cat |-> "ntp", val |-> kind]

\* The validity conditions as the specification words them, on the packed
\* byte's bit ranges: mode is bits 0-2, the leap indicator bits 6-7
ValidResponse(m) ==
    /\ m.li_vn_mode_ % 8 = 4
    /\ m.li_vn_mode_ \div 64 # 3
    /\ m.stratum_ \in 1..15
    /\ ~(m.tx_.seconds_ = <<0, 0, 0, 0>> /\ m.tx_.fraction_ = <<0, 0, 0, 0>>)

\* The steps of a call in their priority order, each with the calls it makes
\* and the error kind it reports
StepCalls ==
    <<{}, {"WSAStartup"}, {"getaddrinfo"}, {"socket"},
      {"setsockopt SO_RCVTIMEO", "setsockopt SO_SNDTIMEO"}, {"sendto"}, {"recv"}, {}>>

StepKind ==
    <<kInvalidHostname, kWsaInitFailed, kHostResolutionFailed, kSocketCreationFailed,
      kTimeoutFailed, kSendFailed, kReceiveFailed, kInvalidResponse>>

\* Step i of thread t's call failed, in the specification's sense of each failure
StepFails(t, i) ==
    CASE i = 1 -> hostname[t] = 0 \/ hostname[t] > 253
      [] i = 2 -> \E r \in Rets(t, "WSAStartup") : r # 0
      [] i = 3 -> \/ \E r \in Rets(t, "getaddrinfo") : r # 0
                  \/ /\ Called(t, "getaddrinfo")
                     /\ (resolved[t] = <<>> \/ resolved[t][1] # AF_INET)
      [] i = 4 -> INVALID_SOCKET \in Rets(t, "socket")
      [] i = 5 -> SOCKET_ERROR \in
                    Rets(t, "setsockopt SO_RCVTIMEO") \cup Rets(t, "setsockopt SO_SNDTIMEO")
      [] i = 6 -> \E r \in Rets(t, "sendto") : r = SOCKET_ERROR \/ r < 48
      [] i = 7 -> SOCKET_ERROR \in Rets(t, "recv")
      [] i = 8 -> \E r \in Rets(t, "recv") :
                    r # SOCKET_ERROR /\ (r < 48 \/ ~ValidResponse(response[t]))

FailingSteps(t) == {i \in 1..8 : StepFails(t, i)}
FirstFailing(t) == CHOOSE i \in FailingSteps(t) : \A j \in FailingSteps(t) : i <= j

\* C1: GetNtpTimestamp is fail-fast in the fixed priority order: a call that
\* returned reports the error of the first failing step (a value when no
\* step failed), and made no call of any step after the failing one.
C1_FailFastOrder ==
    \A t \in Threads :
        Done(t) =>
            IF FailingSteps(t) = {}
            THEN ret[t].has_value
            ELSE /\ ReturnedError(t, StepKind[FirstFailing(t)])
                 /\ \A j \in 1..8 :
                        j > FirstFailing(t) => \A c \in StepCalls[j] : ~Called(t, c)

\* C2: a short read (recv returns 0..47 bytes) always yields kInvalidResponse,
\* and kReceiveFailed is returned only when recv itself reports an error.
C2_ShortReadInvalidResponse ==
    \A t \in Threads :
        Done(t) =>
            /\ \A r \in Rets(t, "recv") :
                    (0 <= r /\ r <= 47) => ReturnedError(t, kInvalidResponse)
            /\ ReturnedError(t, kReceiveFailed) => SOCKET_ERROR \in Rets(t, "recv")

\* C3: the validity predicate is the sole gate on success: a call returns a
\* timestamp only if the normalized response has mode 4, leap indicator other
\* than 3, stratum 1..15 and a non-zero transmit timestamp, and a full 48-byte
\* response failing any of these yields kInvalidResponse.
C3_ValidityGate ==
    \A t \in Threads :
        Done(t) =>
            /\ ret[t].has_value => (48 \in Rets(t, "recv") /\ ValidResponse(response[t]))
            /\ (48 \in Rets(t, "recv") /\ ~ValidResponse(response[t]))
                    => ReturnedError(t, kInvalidResponse)

\* C3 witness: a full response whose only defect is stratum 16 was rejected
C3_Witness_Stratum16Rejected ==
    \E t \in Threads :
        /\ Done(t)
        /\ 48 \in Rets(t, "recv")
        /\ response[t].li_vn_mode_ = 28
        /\ response[t].stratum_ = 16
        /\ response[t].tx_.seconds_ = <<233, 227, 78, 13>>
        /\ ReturnedError(t, kInvalidResponse)

\* The 32-bit big-endian integer held in bytes at..at+3 (counted from 0)
BigEndian32(d, at) == <<d[at + 1], d[at + 2], d[at + 3], d[at + 4]>>

\* C4: on success the result is the transmit timestamp unchanged: seconds is
\* the big-endian integer in bytes 40-43 of the received datagram, fraction
\* the one in bytes 44-47; the reply with mode 4, stratum 1, transmit seconds
\* 3923987981 and fraction 0 yields {3923987981, 0}.
C4_TransmitUnchanged ==
    \A t \in Threads :
        Done(t) =>
            /\ ret[t].has_value =>
                /\ Len(datagram[t]) = 48
                /\ ret[t].value.seconds = BigEndian32(datagram[t], 40)
                /\ ret[t].value.fraction = BigEndian32(datagram[t], 44)
            /\ ( /\ Len(datagram[t]) = 48
                 /\ datagram[t][1] \in {28, 36}
                 /\ datagram[t][2] = 1
                 /\ BigEndian32(datagram[t], 40) = <<233, 227, 78, 13>>
                 /\ BigEndian32(datagram[t], 44) = <<0, 0, 0, 0>> )
                => ret[t] = [has_value |-> TRUE,
                             value |-> [seconds |-> <<233, 227, 78, 13>>,
                                        fraction |-> <<0, 0, 0, 0>>]]

\* C4 witness: the example reply was received and its timestamp returned
C4_Witness_ExampleReply ==
    \E t \in Threads :
        /\ Done(t)
        /\ Len(datagram[t]) = 48
        /\ datagram[t][1] = 28
        /\ datagram[t][2] = 1
        /\ ret[t].has_value
        /\ ret[t].value.seconds = <<233, 227, 78, 13>>
        /\ ret[t].value.fraction = <<0, 0, 0, 0>>

\* C5: for every message value IsValid() is true exactly when mode = 4, leap
\* indicator # 3, 1 <= stratum <= 15 and the transmit timestamp is not (0,0);
\* stratum 15 is accepted, 0 and 16 rejected, mode 3 rejected; no other
\* member takes part.
C5_IsValidExact ==
    codec.op = "IsValid" =>
        /\ codec.out = ValidResponse(codec.m)
        /\ (codec.m.stratum_ \in {0, 16} \/ codec.m.li_vn_mode_ % 8 = 3) => ~codec.out
        /\ ( /\ codec.m.stratum_ = 15
             /\ codec.m.li_vn_mode_ % 8 = 4
             /\ codec.m.li_vn_mode_ \div 64 # 3
             /\ codec.m.tx_ # [seconds_ |-> <<0, 0, 0, 0>>, fraction_ |-> <<0, 0, 0, 0>>] )
            => codec.out

\* C5 witness: IsValid accepted a stratum 15 reply whose transmit timestamp
\* has a zero seconds field and whose other members are set
C5_Witness_Stratum15Accepted ==
    /\ codec.op = "IsValid"
    /\ codec.m.stratum_ = 15
    /\ codec.m.tx_.seconds_ = <<0, 0, 0, 0>>
    /\ codec.m.rx_ # ZeroTimestamp
    /\ codec.out

\* C6: the hostname guard: an empty hostname and one longer than 253
\* characters (254) yield kInvalidHostname without any external call; a
\* hostname of exactly 253 characters passes and the call goes on to
\* WSAStartup and, that succeeding, to resolution.
C6_HostnameGuard ==
    \A t \in Threads :
        Done(t) =>
            /\ (hostname[t] = 0 \/ hostname[t] >= 254) =>
                    (ReturnedError(t, kInvalidHostname) /\ log[t] = <<>>)
            /\ hostname[t] = 253 =>
                    /\ ~ReturnedError(t, kInvalidHostname)
                    /\ Called(t, "WSAStartup")
                    /\ 0 \in Rets(t, "WSAStartup") => Called(t, "getaddrinfo")

\* C6 witness: a 254 character hostname was rejected before any call
C6_Witness_TooLongRejected ==
    \E t \in Threads :
        /\ Done(t)
        /\ hostname[t] = 254
        /\ ReturnedError(t, kInvalidHostname)
        /\ log[t] = <<>>

C8_ShortWriteTerminal ==
    \A t \in Threads :
        Done(t) =>
            \A r \in Rets(t, "sendto") :
                (0 <= r /\ r < 48) => (ReturnedError(t, kSendFailed) /\ ~Called(t, "recv"))

\* Every call `open` of the log that handed out a handle is followed by a
\* call `close` on that handle
Paired(t, open, handle(_), close) ==
    \A i \in Entries(t, open) :
        handle(log[t][i]) # 0 =>
            \E j \in Entries(t, close) : j > i /\ log[t][j].arg = handle(log[t][i])

SocketOf(e) == e.ret
ListOf(e) == e.arg

\* C9: no resource leaks on any exit path: when GetNtpTimestamp has returned,
\* every socket it opened is closed, every address list it obtained is freed
\* and every successful WSAStartup is matched by a WSACleanup.
C9_NoLeak ==
    \A t \in Threads :
        Done(t) =>
            /\ \A x \in openSockets : x.owner # t
            /\ \A x \in liveLists : x.owner # t
            /\ wsaHeld[t] = 0
            /\ Paired(t, "socket", SocketOf, "closesocket")
            /\ Paired(t, "getaddrinfo", ListOf, "freeaddrinfo")
            /\ Cardinality({i \in Entries(t, "WSAStartup") : log[t][i].ret = 0})
                 = Cardinality(Entries(t, "WSACleanup"))

\* C9 witness: a call that opened a socket, obtained a list and initialized
\* Winsock has returned a timestamp with all three released
C9_Witness_SuccessReleased ==
    \E t \in Threads :
        /\ Done(t)
        /\ ret[t].has_value
        /\ Called(t, "closesocket")
        /\ Called(t, "freeaddrinfo")
        /\ Called(t, "WSACleanup")
        /\ openSockets = {}
        /\ liveLists = {}

\* C10: the request on the wire is always the same 48 bytes sent to UDP port
\* 123: 0x1B (leap 0, version 3, mode 3) followed by 47 zero bytes, whatever
\* the hostname and whatever calls came before.
C10_RequestBytes ==
    \A t \in Threads :
        \A i \in 1..Len(wire[t]) :
            /\ Len(wire[t][i].bytes) = 48
            /\ \A j \in 1..48 : wire[t][i].bytes[j] = (IF j = 1 THEN 27 ELSE 0)
            /\ wire[t][i].port = 123

\* C10 witness: the request of a second call, for a 253 character hostname
C10_Witness_SecondCallRequest ==
    \E t \in Threads :
        /\ ncalls[t] = 2
        /\ hostname[t] = 253
        /\ Len(wire[t]) = 1
        /\ wire[t][1].bytes[1] = 27

\* The entries of thread t's call named name that failed with SOCKET_ERROR
\* and left the platform error code in WSAGetLastError
FailedWith(t, name, code) ==
    \E i \in Entries(t, name) : log[t][i].ret = SOCKET_ERROR /\ log[t][i].data = code

\* C11: an expired timeout (WSAETIMEDOUT, 10060) is an ordinary send/receive
\* error: recv failing with it yields kReceiveFailed, sendto failing with it
\* yields kSendFailed, and kTimeoutFailed is returned only when one of the two
\* setsockopt calls failed, before anything was sent or received.
C11_TimeoutIsOrdinaryError ==
    \A t \in Threads :
        Done(t) =>
            /\ FailedWith(t, "recv", 10060) => ReturnedError(t, kReceiveFailed)
            /\ FailedWith(t, "sendto", 10060) => ReturnedError(t, kSendFailed)
            /\ ReturnedError(t, kTimeoutFailed) =>
                    /\ SOCKET_ERROR \in Rets(t, "setsockopt SO_RCVTIMEO")
                                          \cup Rets(t, "setsockopt SO_SNDTIMEO")
                    /\ ~Called(t, "sendto")
                    /\ ~Called(t, "recv")

\* C11 witness: the request went out whole, recv timed out, kReceiveFailed
C11_Witness_RecvTimedOut ==
    \E t \in Threads :
        /\ Done(t)
        /\ Rets(t, "sendto") = {48}
        /\ FailedWith(t, "recv", 10060)
        /\ ReturnedError(t, kReceiveFailed)

\* C12: every resolution failure (the resolver reports failure, it succeeds
\* with an empty list, or the first address is not IPv4) is returned as
\* kHostResolutionFailed, and the call creates no socket.
C12_ResolutionFailures ==
    \A t \in Threads :
        (Done(t) /\ Called(t, "getaddrinfo")) =>
            LET failed == \/ \E r \in Rets(t, "getaddrinfo") : r # 0
                          \/ resolved[t] = <<>>
                          \/ resolved[t][1] # AF_INET
            IN failed => /\ ReturnedError(t, kHostResolutionFailed)
                         /\ ~Called(t, "socket")
                         /\ \A x \in openSockets : x.owner # t

\* C12 witness: the resolver succeeded with a first address that is not IPv4
C12_Witness_NotIPv4 ==
    \E t \in Threads :
        /\ Done(t)
        /\ Rets(t, "getaddrinfo") = {0}
        /\ resolved[t] # <<>>
        /\ resolved[t][1] # AF_INET
        /\ ReturnedError(t, kHostResolutionFailed)

\* The platform codes an error value carries: a system-category code is one;
\* a code of the NTP category holds the kind and nothing else
PlatformCodes(e) == IF e.cat = "system" THEN {e.val} ELSE {}

\* The platform codes with which steps of thread t's call failed
FailureCodes(t) ==
    {log[t][i].data : i \in {j \in Entries(t, "sendto") \cup Entries(t, "recv") :
                                log[t][j].ret = SOCKET_ERROR}}
      \cup {r \in Rets(t, "WSAStartup") \cup Rets(t, "getaddrinfo") : r # 0}

\* C13: when a step failed with a platform error code, the error value
\* GetNtpTimestamp returns carries that code in addition to the kind.
C13_PlatformCodePreserved ==
    \A t \in Threads :
        (Done(t) /\ ~ret[t].has_value) =>
            \A code \in FailureCodes(t) :
                \/ code \in PlatformCodes(ret[t].error)
                \/ /\ "platform" \in DOMAIN ret[t].error
                   /\ ret[t].error.platform = code

\* The failure condition each error kind names
KindStep(kind) == CHOOSE i \in 1..8 : StepKind[i] = kind

\* C14: the taxonomy is closed and uncoalesced: every error returned is of
\* the NTP category with one of the eight failure kinds, and the kind
\* returned is the kind of a failure condition that occurred in the call.
C14_ClosedUncoalesced ==
    \A t \in Threads :
        (Done(t) /\ ~ret[t].has_value) =>
            /\ ret[t].error.cat = "ntp"
            /\ ret[t].error.val \in kWsaInitFailed..kInvalidResponse
            /\ StepFails(t, KindStep(ret[t].error.val))

\* A result of the typed channel: a timestamp, or an error of the NTP
\* category with one of the failure kinds
Typed(r) ==
    \/ r.has_value
    \/ /\ "error" \in DOMAIN r
       /\ r.error.cat = "ntp"
       /\ r.error.val \in kWsaInitFailed..kInvalidResponse

Running(t) == pc[t] \notin {"idle", "done"}

\* C15: every call in progress eventually returns, and what it returns is a
\* timestamp or a typed error; the primitives being assumed to return, no
\* step of the call is retried or left without a successor.
C15_CompletesTyped ==
    \A t \in Threads : Running(t) ~> (Done(t) /\ Typed(ret[t]))

\* C15 witness: a second call ran through to recv and returned
C15_Witness_SecondCallReturned ==
    \E t \in Threads :
        /\ Done(t)
        /\ ncalls[t] >= 2
        /\ Called(t, "recv")
        /\ Typed(ret[t])

\* C16: SwapEndiansIfNLE applied twice yields the original message, and
\* neither application changes a single-byte member or the reference id.
C16_SwapRoundTrip ==
    codec.op = "SwapEndiansIfNLE" =>
        /\ codec.m = codec.prev
        /\ \A x \in {codec.out, codec.m} :
            /\ x.li_vn_mode_ = codec.prev.li_vn_mode_
            /\ x.stratum_ = codec.prev.stratum_
            /\ x.poll_ = codec.prev.poll_
            /\ x.precision_ = codec.prev.precision_
            /\ x.ref_clock_id_ = codec.prev.ref_clock_id_

\* C16 witness: a message with every member set, changed by the first
\* application (root delay 0x00000102 read as 0x02010000) and restored by
\* the second
C16_Witness_FullMessageRestored ==
    /\ codec.op = "SwapEndiansIfNLE"
    /\ IsFull(codec.prev)
    /\ codec.out.sync_distance_ = <<2, 1, 0, 0>>
    /\ codec.out.tx_.seconds_ = <<13, 78, 227, 233>>
    /\ codec.m = codec.prev

\* What an accessor is to return: the last argument of its setter cut to
\* the field's width, the field's initial value when it was never called
ReadBack(last_arg, initial, width) ==
    IF last_arg < 0 THEN initial ELSE last_arg % width

\* C17: after any sequence of setter calls Mode(), Version() and
\* LeapIndicator() return the last argument of SetMode, SetVersion and
\* SetLeapIndicator masked to 3, 3 and 2 bits; a field never set reads back
\* its initial value.
C17_ReadBack ==
    codec.op \in SetterOps =>
        /\ codec.out.Mode =
              ReadBack(codec.last.SetMode, codec.m0.li_vn_mode_ % 8, 8)
        /\ codec.out.Version =
              ReadBack(codec.last.SetVersion, (codec.m0.li_vn_mode_ \div 8) % 8, 8)
        /\ codec.out.LeapIndicator =
              ReadBack(codec.last.SetLeapIndicator, codec.m0.li_vn_mode_ \div 64, 4)

\* C17 witness: three setters in a row on the byte 0xDC, two of them with
\* out-of-range arguments, the leap indicator never set
C17_Witness_SequenceReadBack ==
    /\ codec.n = 3
    /\ codec.m0.li_vn_mode_ = 220
    /\ codec.last = [SetMode |-> 255, SetVersion |-> 12, SetLeapIndicator |-> 0 - 1]
    /\ codec.out = [Mode |-> 7, Version |-> 4, LeapIndicator |-> 3]

\* C18: SetMode changes only bits 0-2, SetVersion only bits 3-5,
\* SetLeapIndicator only bits 6-7 of li_vn_mode_, and no setter changes any
\* other member of the message.
C18_SetterFrame ==
    codec.op \in SetterOps =>
        LET before == codec.prev.li_vn_mode_
            after == codec.m.li_vn_mode_
        IN /\ [codec.m EXCEPT !.li_vn_mode_ = before] = codec.prev
           /\ codec.op = "SetMode" => after \div 8 = before \div 8
           /\ codec.op = "SetVersion" =>
                (after % 8 = before % 8 /\ after \div 64 = before \div 64)
           /\ codec.op = "SetLeapIndicator" => after % 64 = before % 64

\* C18 witness: SetVersion(255) on a message with every member set and the
\* packed byte 0x42 leaves 0x7A: mode 2 and leap indicator 1 as before
C18_Witness_SetVersionOutOfRange ==
    /\ codec.op = "SetVersion"
    /\ codec.arg = 255
    /\ IsFull(codec.prev)
    /\ codec.prev.li_vn_mode_ = 66
    /\ codec.m = Full(122)

\* Nothing of a call is left: every variable but the count of calls is as
\* it was before the first call
NothingLeft ==
    /\ hostname = [t \in Threads |-> 0]
    /\ wsaErr = [t \in Threads |-> 0 - 1]
    /\ result = [t \in Threads |-> 0]
    /\ resolved = [t \in Threads |-> <<>>]
    /\ guard = [t \in Threads |-> 0]
    /\ port = [t \in Threads |-> 0]
    /\ sock = [t \in Threads |-> INVALID_SOCKET]
    /\ ntp_message = [t \in Threads |-> NtpMessage]
    /\ response = [t \in Threads |-> NtpMessage]
    /\ wire = [t \in Threads |-> <<>>]
    /\ datagram = [t \in Threads |-> <<>>]
    /\ ret = [t \in Threads |-> Pending]
    /\ log = [t \in Threads |-> <<>>]
    /\ wsaHeld = [t \in Threads |-> 0]
    /\ openSockets = {}
    /\ liveLists = {}

\* The result of thread t's call as a function of its hostname and of what
\* the environment answered during the call, and of nothing else
ResultOf(t) ==
    IF GuardRejects(hostname[t])
    THEN Unexpected(MakeErrorCode(kInvalidHostname))
    ELSE IF \E r \in Rets(t, "WSAStartup") : r # 0
    THEN Unexpected(MakeErrorCode(kWsaInitFailed))
    ELSE IF \/ \E r \in Rets(t, "getaddrinfo") : r # 0
            \/ result[t] = 0
            \/ resolved[t][1] # AF_INET
    THEN Unexpected(MakeErrorCode(kHostResolutionFailed))
    ELSE IF INVALID_SOCKET \in Rets(t, "socket")
    THEN Unexpected(MakeErrorCode(kSocketCreationFailed))
    ELSE IF SOCKET_ERROR \in
              Rets(t, "setsockopt SO_RCVTIMEO") \cup Rets(t, "setsockopt SO_SNDTIMEO")
    THEN Unexpected(MakeErrorCode(kTimeoutFailed))
    ELSE IF SOCKET_ERROR \in Rets(t, "sendto")
    THEN Unexpected(MakeErrorCode(kSendFailed))
    ELSE IF \E r \in Rets(t, "recv") : r = SOCKET_ERROR \/ r < MsgSize
    THEN Unexpected(MakeErrorCode(kReceiveFailed))
    ELSE LET reply == Overwrite(NtpMessage, datagram[t], MsgSize)
             normal == SwapEndiansIfNLE(reply)
         IN IF IsValid(normal)
            THEN Expected(NtpTimestamp(normal.tx_.seconds_, normal.tx_.fraction_))
            ELSE Unexpected(MakeErrorCode(kInvalidResponse))

\* The request every call sends: 0x1B and 47 zero bytes
RequestBytes == [j \in 1..MsgSize |-> IF j = 1 THEN 27 ELSE 0]

\* C19: no state persists between calls: between two calls every variable
\* but the count of calls is as before the first call, and whatever calls
\* came before, a call's request bytes are the same and its result is the
\* function ResultOf of its own hostname and the environment's answers.
C19_NoPersistentState ==
    /\ (\A t \in Threads : pc[t] = "idle") => NothingLeft
    /\ \A t \in Threads :
        /\ \A i \in 1..Len(wire[t]) : wire[t][i].bytes = RequestBytes
        /\ Done(t) => ret[t] = ResultOf(t)

\* C19 witness: a call after an earlier one took the same answers to a
\* timestamp, on a handle and a list id handed out anew
C19_Witness_LaterCallSameResult ==
    \E t \in Threads :
        /\ Done(t)
        /\ ncalls[t] >= 2
        /\ wire[t] # <<>>
        /\ wire[t][1].bytes = RequestBytes
        /\ ret[t] = Expected(NtpTimestamp(ExampleSeconds, ZeroWord))
        /\ ret[t] = ResultOf(t)

SocketCalls ==
    {"setsockopt SO_RCVTIMEO", "setsockopt SO_SNDTIMEO", "sendto", "recv", "closesocket"}

\* C20: concurrent calls share no mutable state: in every interleaving each
\* call holds a socket and an address list no other call holds, passes only
\* the socket it opened to setsockopt, sendto, recv and closesocket and only
\* its own list to freeaddrinfo, sends its own request buffer, fills its own
\* response buffer from its own datagram, releases Winsock exactly when it
\* initialized it, and returns what ResultOf gives for its own hostname and
\* answers, as it does when it runs alone.
C20_NoSharedState ==
    \A t \in Threads :
        /\ sock[t] # INVALID_SOCKET =>
              /\ [h |-> sock[t], owner |-> t] \in openSockets
              /\ \A u \in Threads \ {t} : sock[u] # sock[t]
        /\ guard[t] # 0 =>
              /\ [id |-> guard[t], owner |-> t] \in liveLists
              /\ \A u \in Threads \ {t} : guard[u] # guard[t]
        /\ \A i \in 1..Len(log[t]) :
              log[t][i].call \in SocketCalls =>
                  \E j \in Entries(t, "socket") :
                      j < i /\ log[t][j].ret = log[t][i].arg /\ log[t][i].arg # INVALID_SOCKET
        /\ \A i \in Entries(t, "freeaddrinfo") :
              \E j \in Entries(t, "getaddrinfo") : j < i /\ log[t][j].arg = log[t][i].arg
        /\ \A i \in 1..Len(wire[t]) :
              /\ wire[t][i].h \in Rets(t, "socket")
              /\ wire[t][i].list = result[t]
              /\ wire[t][i].bytes = NetworkBytes(ntp_message[t])
        /\ wsaHeld[t] = (IF wsaErr[t] = 0 THEN 1 ELSE 0)
        /\ Done(t) =>
              /\ ret[t] = ResultOf(t)
              /\ MsgSize \in Rets(t, "recv") =>
                    response[t] = SwapEndiansIfNLE(Overwrite(NtpMessage, datagram[t], MsgSize))

\* C20 witness: while thread 1 waits in recv on its socket, thread 2 ran a
\* whole call on another socket and another list and returned a timestamp
C20_Witness_Interleaved ==
    /\ pc[1] = "recv"
    /\ [h |-> sock[1], owner |-> 1] \in openSockets
    /\ [id |-> guard[1], owner |-> 1] \in liveLists
    /\ Done(2)
    /\ ret[2] = Expected(NtpTimestamp(ExampleSeconds, ZeroWord))
    /\ \A i \in Entries(2, "closesocket") : log[2][i].arg # sock[1]
    /\ \A i \in Entries(2, "freeaddrinfo") : log[2][i].arg # guard[1]
    /\ Called(2, "WSACleanup")

\* The ten 32-bit numeric members of a message, in member order, and the
\* offsets of their four bytes in the 48 (counted from 0)
HostWords(m) ==
    <<m.sync_distance_, m.drift_rate_,
      m.ref_.seconds_, m.ref_.fraction_, m.orig_.seconds_, m.orig_.fraction_,
      m.rx_.seconds_, m.rx_.fraction_, m.tx_.seconds_, m.tx_.fraction_>>

WordOffsets == <<4, 8, 16, 20, 24, 28, 32, 36, 40, 44>>

\* bytes is the network form of the host-order message m: each numeric
\* member big-endian, the single bytes and the reference id as they are
NetworkForm(m, bytes) ==
    /\ Len(bytes) = MsgSize
    /\ \A k \in 1..10 : BigEndian32(bytes, WordOffsets[k]) = HostWords(m)[k]
    /\ <<bytes[1], bytes[2], bytes[3], bytes[4]>> =
          <<m.li_vn_mode_, m.stratum_, m.poll_, m.precision_>>
    /\ SubSeq(bytes, 13, 16) = m.ref_clock_id_

\* C21: byte order is converted exactly once at each boundary, on every
\* numeric member: the buffer SendTo hands to sendto is the network form of
\* the host-order message (which SendTo leaves as it was), and the message a
\* successful Receive leaves is the host-order message whose network form
\* the 48 bytes read are.
C21_ConvertedOnce ==
    /\ codec.op = "SendTo" =>
          (NetworkForm(codec.m, codec.out) /\ codec.m = codec.m0)
    /\ (codec.op = "Receive" /\ codec.out.result.has_value) =>
          NetworkForm(codec.m, codec.out.dgram)

\* C21 witness: 48 bytes with no palindromic word were read; root delay
\* 02 01 00 00 on the wire is 0x02010000 in the message, the transmit
\* seconds 0D 4E E3 E9 are 0x0D4EE3E9
C21_Witness_FullReplyConverted ==
    /\ codec.op = "Receive"
    /\ IsFull(codec.prev)
    /\ codec.out.result = Expected(MsgSize)
    /\ SubSeq(codec.out.dgram, 5, 8) = <<2, 1, 0, 0>>
    /\ codec.m.sync_distance_ = <<2, 1, 0, 0>>
    /\ codec.m.tx_.seconds_ = <<13, 78, 227, 233>>

\* Before entry i of thread t's call the option opt was set with success to
\* 5 seconds (5000 ms) on the socket entry i is about
TimeoutSet(t, i, opt) ==
    \E j \in Entries(t, opt) :
        /\ j < i
        /\ log[t][j].arg = log[t][i].arg
        /\ log[t][j].data = 5 * 1000
        /\ log[t][j].ret # SOCKET_ERROR

\* C22: the timeout is in force before any blocking I/O: sendto and recv are
\* called only on a socket on which SO_RCVTIMEO and SO_SNDTIMEO were both
\* set with success to 5 seconds, and when either setsockopt fails the call
\* returns kTimeoutFailed with nothing sent.
C22_TimeoutBeforeIO ==
    \A t \in Threads :
        /\ \A i \in Entries(t, "sendto") \cup Entries(t, "recv") :
              /\ TimeoutSet(t, i, "setsockopt SO_RCVTIMEO")
              /\ TimeoutSet(t, i, "setsockopt SO_SNDTIMEO")
        /\ SOCKET_ERROR \in
              Rets(t, "setsockopt SO_RCVTIMEO") \cup Rets(t, "setsockopt SO_SNDTIMEO")
              => /\ Done(t)
                 /\ ReturnedError(t, kTimeoutFailed)
                 /\ wire[t] = <<>>
                 /\ ~Called(t, "sendto")
                 /\ ~Called(t, "recv")

\* C22 witness: the receive timeout was set, the send timeout was not;
\* kTimeoutFailed came back and nothing was sent
C22_Witness_SendTimeoutNotSet ==
    \E t \in Threads :
        /\ Done(t)
        /\ Rets(t, "setsockopt SO_RCVTIMEO") = {0}
        /\ Rets(t, "setsockopt SO_SNDTIMEO") = {SOCKET_ERROR}
        /\ ReturnedError(t, kTimeoutFailed)
        /\ wire[t] = <<>>

\* The socket and resolver primitives, all of which need Winsock initialized
WinsockCalls ==
    {"getaddrinfo", "socket", "setsockopt SO_RCVTIMEO", "setsockopt SO_SNDTIMEO",
     "sendto", "recv", "closesocket", "freeaddrinfo"}

\* C23: resources are released in reverse order of acquisition and cleanup
\* is paired with initialization: closesocket comes before freeaddrinfo,
\* both before WSACleanup; a call that returned called WSACleanup exactly
\* once if WSAStartup succeeded and not at all otherwise; and every socket
\* or resolver primitive is called after a successful WSAStartup and before
\* WSACleanup.
C23_ReverseRelease ==
    \A t \in Threads :
        /\ \A i \in Entries(t, "closesocket") :
              \A j \in Entries(t, "freeaddrinfo") : i < j
        /\ \A i \in Entries(t, "closesocket") \cup Entries(t, "freeaddrinfo") :
              \A k \in Entries(t, "WSACleanup") : i < k
        /\ Cardinality(Entries(t, "WSACleanup")) <= 1
        /\ Called(t, "WSACleanup") => Rets(t, "WSAStartup") = {0}
        /\ Done(t) => (Called(t, "WSACleanup") <=> 0 \in Rets(t, "WSAStartup"))
        /\ \A i \in 1..Len(log[t]) :
              log[t][i].call \in WinsockCalls =>
                  /\ \E s \in Entries(t, "WSAStartup") : s < i /\ log[t][s].ret = 0
                  /\ \A k \in Entries(t, "WSACleanup") : i < k

\* C23 witness: a call that ended in kInvalidResponse released its socket,
\* then its address list, then Winsock, as the last three calls it made
C23_Witness_ThreeReleasedInOrder ==
    \E t \in Threads :
        /\ Done(t)
        /\ ReturnedError(t, kInvalidResponse)
        /\ Len(log[t]) >= 3
        /\ log[t][Len(log[t]) - 2].call = "closesocket"
        /\ log[t][Len(log[t]) - 1].call = "freeaddrinfo"
        /\ log[t][Len(log[t])].call = "WSACleanup"

\* C24: only the first resolved address is ever used: what is sent goes to
\* the first entry of the call's own list; a list whose first entry is not
\* IPv4 ends the call with kHostResolutionFailed and no socket even when a
\* later entry is IPv4; and a call resolves, opens a socket and sends at most
\* once, so that no other candidate is tried after a failure.
C24_FirstAddressOnly ==
    \A t \in Threads :
        /\ \A i \in 1..Len(wire[t]) :
              /\ wire[t][i].entry = 1
              /\ wire[t][i].list = result[t]
              /\ wire[t][i].family = resolved[t][1]
              /\ wire[t][i].family = AF_INET
        /\ (Done(t) /\ resolved[t] # <<>> /\ resolved[t][1] # AF_INET) =>
              /\ ReturnedError(t, kHostResolutionFailed)
              /\ ~Called(t, "socket")
              /\ wire[t] = <<>>
        /\ Cardinality(Entries(t, "getaddrinfo")) <= 1
        /\ Cardinality(Entries(t, "socket")) <= 1
        /\ Cardinality(Entries(t, "sendto")) <= 1
        /\ Len(wire[t]) <= 1

\* C24 witness: the list was IPv6 first and IPv4 second; the call failed with
\* kHostResolutionFailed without opening a socket
C24_Witness_IPv4SecondIgnored ==
    \E t \in Threads :
        /\ Done(t)
        /\ Len(resolved[t]) = 2
        /\ resolved[t][1] # AF_INET
        /\ resolved[t][2] = AF_INET
        /\ ReturnedError(t, kHostResolutionFailed)
        /\ ~Called(t, "socket")

\* C25: the validity verdict does not depend on byte-order normalization:
\* IsValid() on a message equals IsValid() on it after SwapEndiansIfNLE().
C25_IsValidSwapInvariant ==
    codec.op = "IsValid, SwapEndiansIfNLE, IsValid" => codec.out.before = codec.out.after

\* C25 witness: a valid message whose transmit timestamp has only the
\* fraction set, 0x00000100; swapped it reads 0x00010000 and is valid still
C25_Witness_ValidBothWays ==
    /\ codec.op = "IsValid, SwapEndiansIfNLE, IsValid"
    /\ codec.prev.tx_ = [seconds_ |-> <<0, 0, 0, 0>>, fraction_ |-> <<0, 0, 1, 0>>]
    /\ codec.m.tx_ = [seconds_ |-> <<0, 0, 0, 0>>, fraction_ |-> <<0, 1, 0, 0>>]
    /\ codec.out = [before |-> TRUE, after |-> TRUE]

\* C26: the error-code mapping is faithful and injective: MakeErrorCode(e)
\* has the NTP category and the ordinal of e as its value, message gives
\* nine pairwise different texts for 0..8, none of them "Unknown error", and
\* "Unknown error" for every integer outside 0..8.
C26_ErrorMapping ==
    /\ codec.op = "MakeErrorCode" =>
          (codec.out.cat = CategoryName /\ codec.out.val = codec.arg)
    /\ codec.op = "message" =>
          /\ \A a, b \in 0..8 : a # b => message(a) # message(b)
          /\ codec.arg \in 0..8 => codec.out # "Unknown error"
          /\ codec.arg \notin 0..8 => codec.out = "Unknown error"

====
